---- MODULE Spec2Model ----
(***************************************************************************)
(* Model of the dispatch layer of src/main.py: the session registry        *)
(* (active_sessions, get_or_create_session), the routing and the retry     *)
(* loop of call_agent_async, and the extraction of the reply from the      *)
(* first final event of an agent run; and of the stock tools of            *)
(* src/multi_tool_agent/stock_agent.py (calculate_performance,             *)
(* get_best_performing, get_price_change_percent) over a market that       *)
(* answers each history lookup.  Prices are integers, a performance is     *)
(* an integer number of hundredths of a percent.                           *)
(*                                                                         *)
(* Text is a sequence of tokens (words for messages, characters for        *)
(* queries); "x in y" of Python is the contiguous-subsequence test         *)
(* Contains, "+" and f-strings are \o.                                     *)
(***************************************************************************)
EXTENDS Integers, Sequences, FiniteSets, TLC

\* ------------------------------------------------------------------ bounds
MaxDispatches == 2
MaxStreamLen == 3
\* symbols in the list handed to get_best_performing
MaxStocks == 2
\* characters in the question handed to answer_paper_question
MaxQuestionLen == 5

Dispatches == 1..MaxDispatches
Users == {"u1", "u2"}

\* ------------------------------------------------------------------- text
\* sub occurs in s as a contiguous subsequence (Python: sub in s)
Contains(s, sub) ==
  \E i \in 0..(Len(s) - Len(sub)) :
    \A j \in 1..Len(sub) : s[i + j] = sub[j]

\* str.lower() on one character
LowerChar(c) ==
  CASE c = "S" -> "s"
    [] c = "T" -> "t"
    [] c = "O" -> "o"
    [] c = "C" -> "c"
    [] c = "K" -> "k"
    [] c = "H" -> "h"
    [] c = "I" -> "i"
    [] OTHER -> c

\* str.lower()
Lower(s) == [i \in 1..Len(s) |-> LowerChar(s[i])]

\* ------------------------------------------------------- program constants
\* main.py:194
DefaultResponseText_empty == <<>>
DefaultResponseText == <<"Agent", "did", "not", "produce", "a", "final", "response.">>
\* main.py:236
SessionNotFoundMarker == <<"Session", "not", "found">>
\* main.py:231
EscalationPrefix == <<"Escalation", "from", "agent:">>
\* main.py:245
ValueErrorPrefix == <<"Sorry,", "an", "error", "occurred:">>
\* main.py:249
UnexpectedErrorPrefix == <<"Sorry,", "an", "unexpected", "error", "occurred:">>
\* main.py:215
max_retries_2 == 1 + 1
max_retries == 1
\* main.py:217  range(max_retries + 1)
NumAttempts == max_retries + 1

\* main.py:197-207, character by character; the two CJK keywords are
\* written with the code points of their characters
stock_keywords ==
  << <<"s","t","o","c","k">>,
     <<"p","r","i","c","e"," ","o","f">>,
     <<"p","e","r","f","o","r","m">>,
     <<"t","i","c","k","e","r">>,
     <<"s","y","m","b","o","l">>,
     <<"s","h","a","r","e","s">>,
     <<"m","a","r","k","e","t">>,
     <<"U+6F32","U+8DCC">>,
     <<"U+80A1","U+50F9">> >>

\* main.py:208  any(keyword in query.lower() for keyword in stock_keywords)
IsStockQuery(query) ==
  \E k \in 1..Len(stock_keywords) : Contains(Lower(query), stock_keywords[k])

\* main.py:196-212
ChooseRunner_caseSensitive(query) ==
  IF \E k \in 1..Len(stock_keywords) : Contains(query, stock_keywords[k])
  THEN "stock_runner" ELSE "runner"
ChooseRunner(query) == IF IsStockQuery(query) THEN "stock_runner" ELSE "runner"

\* the utterances handed to call_agent_async: a link to a paper (scheme,
\* host and path as one token, then the numeric identifier) and a text
\* with a stock keyword in upper case
Queries ==
  { <<"https://arxiv.org/abs/", "2303.10130">>,
    <<"S","T","O","C","K","s">> }

\* ------------------------------------------------------- session registry
\* main.py:138  f"session_{user_id}"
SessionIdFor(user_id) == <<"session_", user_id>>

NoSession == <<>>

\* main.py:135-153.  createOk: whether session_service.create_session
\* returns (TRUE) or raises (FALSE); when it raises, line 142 is not
\* reached and the exception leaves get_or_create_session.
\* created: create_session was called and returned.
get_or_create_session_alwaysCreate(active, store, user_id, createOk) ==
  [raised |-> FALSE, created |-> TRUE,
   session_id |-> SessionIdFor(user_id),
   active |-> [u \in (DOMAIN active) \cup {user_id} |->
                 IF u = user_id THEN SessionIdFor(user_id) ELSE active[u]],
   store |-> store \cup {<<user_id, SessionIdFor(user_id)>>}]
get_or_create_session(active, store, user_id, createOk) ==
  IF user_id \notin DOMAIN active
  THEN IF createOk
       THEN [raised |-> FALSE, created |-> TRUE,
             session_id |-> SessionIdFor(user_id),
             active |-> [u \in (DOMAIN active) \cup {user_id} |->
                           IF u = user_id THEN SessionIdFor(user_id) ELSE active[u]],
             store |-> store \cup {<<user_id, SessionIdFor(user_id)>>}]
       ELSE [raised |-> TRUE, created |-> FALSE, session_id |-> NoSession,
             active |-> active, store |-> store]
  ELSE [raised |-> FALSE, created |-> FALSE, session_id |-> active[user_id],
        active |-> active, store |-> store]

\* main.py:240-241  if user_id in active_sessions: del active_sessions[user_id]
Invalidate_all(active, user_id) == <<>>
Invalidate(active, user_id) ==
  [u \in (DOMAIN active) \ {user_id} |-> active[u]]

\* ------------------------------------------------- events of an agent run
\* A part of event.content.parts.  has_text: hasattr(part, "text");
\* is_str: part.text is a str (FALSE: part.text is None).
TextPart(t) == [has_text |-> TRUE, is_str |-> TRUE, text |-> t]
NonePart == [has_text |-> TRUE, is_str |-> FALSE, text |-> <<>>]
NoTextAttrPart == [has_text |-> FALSE, is_str |-> FALSE, text |-> <<>>]

\* event.actions.escalate: None, the bool True, or an object with a
\* message attribute (a str, or None when msg_is_str is FALSE)
NoEscalate == [kind |-> "none", msg_is_str |-> FALSE, message |-> <<>>]
EscalateTrue == [kind |-> "bool", msg_is_str |-> FALSE, message |-> <<>>]
EscalateMsg(m) == [kind |-> "obj", msg_is_str |-> TRUE, message |-> m]
EscalateNoMsg == [kind |-> "obj", msg_is_str |-> FALSE, message |-> <<>>]

\* An item of the stream of run_async: an event, or an exception raised
\* by the generator.  has_content: event.content is not None.
Event(final, has_content, parts, escalate) ==
  [kind |-> "event", final |-> final, has_content |-> has_content,
   parts |-> parts, escalate |-> escalate, type |-> "", msg |-> <<>>]
Raise(type, msg) ==
  [kind |-> "error", final |-> FALSE, has_content |-> FALSE,
   parts |-> <<>>, escalate |-> NoEscalate, type |-> type, msg |-> msg]

NonFinalEvents ==
  { Event(FALSE, TRUE, <<TextPart(<<"partial">>)>>, NoEscalate) }

FinalEvents ==
  { Event(TRUE, TRUE, <<TextPart(<<"A">>), TextPart(<<"B">>)>>, NoEscalate),
    Event(TRUE, TRUE, <<TextPart(<<>>), NoTextAttrPart, TextPart(<<"B">>)>>, NoEscalate),
    Event(TRUE, TRUE, <<TextPart(<<"A">>), NonePart>>, NoEscalate),
    Event(TRUE, FALSE, <<>>, NoEscalate),
    Event(TRUE, TRUE, <<>>, EscalateMsg(<<"Escalation", "message", "here">>)),
    Event(TRUE, FALSE, <<>>, EscalateMsg(<<"Escalation", "message", "here">>)),
    Event(TRUE, FALSE, <<>>, EscalateTrue),
    Event(TRUE, FALSE, <<>>, EscalateNoMsg) }

Errors ==
  { Raise("ValueError", <<"Session", "not", "found", ":", "sid">>),
    Raise("ValueError", <<"Some", "other", "value", "error">>),
    Raise("RuntimeError", <<"Session", "not", "found", ":", "sid">>),
    Raise("RuntimeError", <<"Retry", "failed">>) }

Items == NonFinalEvents \cup FinalEvents \cup Errors

RECURSIVE SeqsUpTo(_, _)
SeqsUpTo(S, n) ==
  IF n = 0 THEN {<<>>}
  ELSE LET shorter == SeqsUpTo(S, n - 1)
       IN  shorter \cup {Append(s, x) : s \in {t \in shorter : Len(t) = n - 1}, x \in S}

\* The streams run_async can produce: a generator that raised is finished,
\* so an exception is the last item of its stream.
Streams ==
  { s \in SeqsUpTo(Items, MaxStreamLen) :
      \A i \in 1..Len(s) : s[i].kind = "error" => i = Len(s) }

\* main.py:222
is_final_response(ev) == ev.final

\* main.py:219-233: the loop asks for another event unless this one was
\* final (break at line 233)
LoopContinues_nobreak(ev) == TRUE
LoopContinues(ev) == ~is_final_response(ev)

\* ------------------------------------------------------------- extraction
NoError == [type |-> "", msg |-> <<>>]

\* the parts that pass `if hasattr(part, "text")`, in order
RECURSIVE TextualParts(_)
TextualParts(parts) ==
  IF parts = <<>> THEN <<>>
  ELSE IF Head(parts).has_text
       THEN <<Head(parts)>> \o TextualParts(Tail(parts))
       ELSE TextualParts(Tail(parts))

RECURSIVE ConcatTexts(_)
ConcatTexts(parts) ==
  IF parts = <<>> THEN <<>>
  ELSE Head(parts).text \o ConcatTexts(Tail(parts))

\* index (from 0) of the first item of ps that is not a str, Len(ps) if none
RECURSIVE FirstNonStr(_)
FirstNonStr(ps) ==
  IF ps = <<>> THEN 0
  ELSE IF ~Head(ps).is_str THEN 0 ELSE 1 + FirstNonStr(Tail(ps))

\* main.py:224-228  "".join(part.text for part in parts if hasattr(part, "text"))
\* str.join raises TypeError at the first item that is not a str.
JoinParts(parts) ==
  LET ps == TextualParts(parts)
      bad == FirstNonStr(ps)
  IN  IF bad < Len(ps)
      THEN [raised |-> TRUE, text |-> <<>>,
            err |-> [type |-> "TypeError",
                     msg |-> <<"sequence", "item", ToString(bad), ":", "expected",
                               "str", "instance,", "NoneType", "found">>]]
      ELSE [raised |-> FALSE, text |-> ConcatTexts(ps), err |-> NoError]

\* main.py:230-232  f"Escalation from agent: {event.actions.escalate.message}"
\* True has no attribute message; a message of None is formatted as "None".
EscalationText(escalate) ==
  IF escalate.kind = "bool"
  THEN [raised |-> TRUE, text |-> <<>>,
        err |-> [type |-> "AttributeError",
                 msg |-> <<"'bool'", "object", "has", "no", "attribute", "'message'">>]]
  ELSE [raised |-> FALSE,
        text |-> EscalationPrefix \o
                 (IF escalate.msg_is_str THEN escalate.message ELSE <<"None">>),
        err |-> NoError]

\* main.py:222-232, the body of `if event.is_final_response():`;
\* current is final_response_text before the event
ExtractFinal(ev, current) ==
  IF ev.has_content /\ ev.parts # <<>>
  THEN JoinParts(ev.parts)
  ELSE IF ev.escalate.kind # "none"
       THEN EscalationText(ev.escalate)
       ELSE [raised |-> FALSE, text |-> current, err |-> NoError]

\* ------------------------------------------------------ exception handling
\* main.py:235
IsValueError(e) == e.type = "ValueError"

\* main.py:235-236
ShouldRetry_anyValueError(e, attempt) == IsValueError(e) /\ attempt < max_retries
ShouldRetry_noAttemptCheck(e, attempt) ==
  IsValueError(e) /\ Contains(e.msg, SessionNotFoundMarker)
ShouldRetry_anyError(e, attempt) == attempt < max_retries
ShouldRetry(e, attempt) ==
  /\ IsValueError(e)
  /\ Contains(e.msg, SessionNotFoundMarker)
  /\ attempt < max_retries

\* main.py:245
ValueErrorText_nomsg(e) == ValueErrorPrefix
ValueErrorText(e) == ValueErrorPrefix \o e.msg

\* main.py:249
UnexpectedErrorText_nomsg(e) == UnexpectedErrorPrefix
UnexpectedErrorText(e) == UnexpectedErrorPrefix \o e.msg

\* ------------------------------------------------------------------ state
VARIABLES
  active_sessions,   \* main.py:57   user_id -> session_id
  session_service,   \* main.py:56   the sessions created in the backend
  dispatch,          \* one record per call of call_agent_async in flight
  tool               \* a call of a tool of multi_tool_agent and its result

vars == <<active_sessions, session_service, dispatch, tool>>

\* outcome of one attempt: "none" (not finished), "final" (a final event
\* was handled), "ended" (the stream ended without a final event),
\* "error" (run_async raised), "extract_error" (handling the final event
\* raised)
NoOutcome == [kind |-> "none", type |-> "", msg |-> <<>>]
Outcome(kind, e) == [kind |-> kind, type |-> e.type, msg |-> e.msg]

\* pc: "idle", "running" (suspended in the async for of line 219),
\* "done" (returned final_response_text), "raised" (an exception left
\* call_agent_async).  execs, resolves, invalidations, sids, first and last
\* record what the call did: the number of run_async calls, of
\* get_or_create_session calls, of registry deletions, the session ids
\* handed to run_async, and the outcome of the first and the latest attempt;
\* creates is the number of create_session calls that returned; content is
\* the text of the Content built at main.py:193 and messages the texts
\* handed to run_async as new_message, user_ids the user ids handed to it
\* and runners the runners it was called on.
Idle ==
  [pc |-> "idle", user_id |-> "", query |-> <<>>, content |-> <<>>,
   messages |-> <<>>, chosen_agent_runner |-> "",
   session_id |-> NoSession, attempt |-> 0, stream |-> <<>>, pos |-> 0,
   final_response_text |-> <<>>,
   execs |-> 0, resolves |-> 0, invalidations |-> 0, creates |-> 0,
   sids |-> <<>>, user_ids |-> <<>>,
   runners |-> <<>>, first |-> NoOutcome, last |-> NoOutcome]

\* no tool call
NoResult ==
  [status |-> "", message |-> <<>>, symbol |-> "", best_stock |-> "",
   performance_percent |-> 0, price_change_percent |-> 0,
   period_days |-> [is_int |-> TRUE, value |-> 0],
   answer_type |-> "", abstract |-> <<>>, title |-> ""]
NoDays == [is_int |-> TRUE, value |-> 0]
NoPaperLookup == [outcome |-> "", summary |-> <<>>, title |-> ""]
ToolIdle ==
  [pc |-> "idle", fn |-> "", stocks |-> <<>>, symbol |-> "", days_ago |-> NoDays,
   market |-> <<>>, question |-> <<>>, paper |-> NoPaperLookup,
   result |-> NoResult, lookups |-> <<>>]

Init ==
  /\ active_sessions = <<>>
  /\ session_service = {}
  /\ dispatch = [d \in Dispatches |-> Idle]
  /\ tool = ToolIdle

\* record o as the outcome of the current attempt of c
WithOutcome(c, o) ==
  [c EXCEPT !.last = o, !.first = IF c.attempt = 0 THEN o ELSE c.first]

\* main.py:219-221  the call of run_async for the next attempt; s is the
\* stream the backend will produce
BeginRun_defaultRunnerOnRetry(c, session_id, attempt, s) ==
  [c EXCEPT !.pc = "running", !.session_id = session_id, !.attempt = attempt,
            !.stream = s, !.pos = 0, !.last = NoOutcome,
            !.execs = c.execs + 1,
            !.sids = Append(c.sids, session_id),
            !.user_ids = Append(c.user_ids, c.user_id),
            !.messages = Append(c.messages, c.content),
            !.runners = Append(c.runners,
                IF attempt = 0 THEN c.chosen_agent_runner ELSE "runner")]
BeginRun(c, session_id, attempt, s) ==
  [c EXCEPT !.pc = "running", !.session_id = session_id, !.attempt = attempt,
            !.stream = s, !.pos = 0, !.last = NoOutcome,
            !.execs = c.execs + 1,
            !.sids = Append(c.sids, session_id),
            !.user_ids = Append(c.user_ids, c.user_id),
            !.messages = Append(c.messages, c.content),
            !.runners = Append(c.runners, c.chosen_agent_runner)]

\* main.py:252-253
Return(c, text) == [c EXCEPT !.pc = "done", !.final_response_text = text]

\* whether create_session returns (TRUE) or raises (FALSE); it is only
\* called for a user without a registry entry
CreateOutcomes(active, user_id) ==
  IF user_id \in DOMAIN active THEN {TRUE} ELSE BOOLEAN

\* main.py:237-242  the retry branch of the ValueError handler: drop the
\* registry entry, resolve a session again, go to the next attempt.  An
\* exception of get_or_create_session at line 242 leaves the handler.
Retry(c, active, store, createOk, s) ==
  LET r == get_or_create_session(Invalidate(active, c.user_id), store,
                                 c.user_id, createOk)
      c2 == [c EXCEPT !.resolves = c.resolves + 1,
                      !.creates = c.creates + (IF r.created THEN 1 ELSE 0),
                      !.invalidations = c.invalidations +
                         (IF c.user_id \in DOMAIN active THEN 1 ELSE 0)]
  IN  [active |-> r.active, store |-> r.store,
       rec |-> IF r.raised
               THEN [c2 EXCEPT !.pc = "raised"]
               ELSE IF c.attempt + 1 < NumAttempts
                    THEN BeginRun(c2, r.session_id, c.attempt + 1, s)
                    ELSE Return([c2 EXCEPT !.session_id = r.session_id],
                                c2.final_response_text)]

\* main.py:243-250  the branches that give up with an error text
GiveUp(c, e) ==
  IF IsValueError(e)
  THEN Return(c, ValueErrorText(e))
  ELSE Return(c, UnexpectedErrorText(e))

\* main.py:235-250  exception e reached the try of attempt c.attempt;
\* kind tells where it came from, S is the set of streams the backend can
\* produce for the next attempt
HandleExceptionFrom(S, d, c, e, kind) ==
  LET c1 == WithOutcome(c, Outcome(kind, e)) IN
  IF ShouldRetry(e, c.attempt)
  THEN \E createOk \in CreateOutcomes(Invalidate(active_sessions, c.user_id), c.user_id) :
         \E s \in (IF createOk THEN S ELSE {<<>>}) :
           LET h == Retry(c1, active_sessions, session_service, createOk, s)
           IN  /\ dispatch' = [dispatch EXCEPT ![d] = h.rec]
               /\ active_sessions' = h.active
               /\ session_service' = h.store
  ELSE /\ dispatch' = [dispatch EXCEPT ![d] = GiveUp(c1, e)]
       /\ UNCHANGED <<active_sessions, session_service>>

HandleException(d, c, e, kind) == HandleExceptionFrom(Streams, d, c, e, kind)

\* ---------------------------------------------------------------- actions
\* main.py:190-221  call_agent_async(query, user_id) up to the first
\* suspension: routing, session resolution, the first call of run_async.
\* An exception of get_or_create_session at line 214 is outside the try.
\* Q is the set of utterances, S the set of streams of the backend.
StartFrom(Q, S, d) ==
  /\ dispatch[d].pc = "idle"
  /\ UNCHANGED tool
  /\ \E u \in Users, q \in Q :
       \E createOk \in CreateOutcomes(active_sessions, u) :
         \E s \in (IF createOk THEN S ELSE {<<>>}) :
           LET r == get_or_create_session(active_sessions, session_service, u, createOk)
               c == [Idle EXCEPT !.user_id = u, !.query = q, !.content = q,
                                 !.final_response_text = DefaultResponseText,
                                 !.chosen_agent_runner = ChooseRunner(q),
                                 !.creates = IF r.created THEN 1 ELSE 0,
                                 !.resolves = 1]
           IN  /\ active_sessions' = r.active
               /\ session_service' = r.store
               /\ dispatch' = [dispatch EXCEPT ![d] =
                     IF r.raised THEN [c EXCEPT !.pc = "raised"]
                     ELSE BeginRun(c, r.session_id, 0, s)]

Start(d) == StartFrom(Queries, Streams, d)

\* main.py:219-234  the stream yields an event
ConsumeEventFrom(S, d) ==
  LET c  == dispatch[d]
      ev == c.stream[c.pos + 1]
      c1 == [c EXCEPT !.pos = c.pos + 1]
      x  == IF is_final_response(ev)
            THEN ExtractFinal(ev, c.final_response_text)
            ELSE [raised |-> FALSE, text |-> c.final_response_text, err |-> NoError]
  IN
  /\ c.pc = "running"
  /\ c.pos < Len(c.stream)
  /\ c.stream[c.pos + 1].kind = "event"
  /\ UNCHANGED tool
  /\ IF x.raised
     THEN HandleExceptionFrom(S, d, c1, x.err, "extract_error")
     ELSE /\ dispatch' = [dispatch EXCEPT ![d] =
                IF LoopContinues(ev)
                THEN [c1 EXCEPT !.final_response_text = x.text]
                ELSE Return(WithOutcome(c1, Outcome("final", NoError)), x.text)]
          /\ UNCHANGED <<active_sessions, session_service>>

ConsumeEvent(d) == ConsumeEventFrom(Streams, d)

\* main.py:219, 234  the stream ends (StopAsyncIteration): the async for is
\* left without a final event, and line 234 leaves the retry loop
StreamExhausted(d) ==
  LET c == dispatch[d] IN
  /\ c.pc = "running"
  /\ c.pos = Len(c.stream)
  /\ UNCHANGED tool
  /\ dispatch' = [dispatch EXCEPT ![d] =
        Return(WithOutcome(c, Outcome("ended", NoError)), c.final_response_text)]
  /\ UNCHANGED <<active_sessions, session_service>>

\* main.py:219, 235-250  the stream raises
StreamRaisesFrom(S, d) ==
  LET c    == dispatch[d]
      item == c.stream[c.pos + 1]
  IN
  /\ c.pc = "running"
  /\ c.pos < Len(c.stream)
  /\ c.stream[c.pos + 1].kind = "error"
  /\ UNCHANGED tool
  /\ HandleExceptionFrom(S, d, [c EXCEPT !.pos = c.pos + 1],
                         [type |-> item.type, msg |-> item.msg], "error")

StreamRaises(d) == StreamRaisesFrom(Streams, d)

\* main.py:178-180  handle_callback got the result (or the exception) of
\* call_agent_async; the call is over
Finish(d) ==
  /\ dispatch[d].pc \in {"done", "raised"}
  /\ dispatch' = [dispatch EXCEPT ![d] = Idle]
  /\ UNCHANGED <<active_sessions, session_service, tool>>

\* no other call of call_agent_async is in flight
NoneInFlight(d) == \A e \in Dispatches \ {d} : dispatch[e].pc = "idle"

\* one call at a time; the slots are interchangeable, it takes the first
StartAlone(d) == NoneInFlight(d) /\ d = 1 /\ Start(d)

Next ==
  \E d \in Dispatches :
    \/ StartAlone(d)
    \/ ConsumeEvent(d)
    \/ StreamExhausted(d)
    \/ StreamRaises(d)
    \/ Finish(d)

Spec == Init /\ [][Next]_vars

\* the event loop resumes a coroutine suspended in the async for: a run
\* that can make a step (an event, the end of the stream, an exception)
\* eventually makes it; the streams are finite
LiveSpec ==
  /\ Spec
  /\ \A d \in Dispatches :
       WF_vars(ConsumeEvent(d) \/ StreamExhausted(d) \/ StreamRaises(d))

\* ------------------------------------------------- concurrent dispatches
\* handle_callback is a coroutine of the web application: several calls of
\* call_agent_async can be in flight and interleave at the suspension
\* points of the async for (main.py:156-180, 219).  The interleavings are
\* explored over one utterance and three backend streams: a final event
\* with text, a ValueError with the marker, another exception.
ConcQueries == { <<"h","i">> }

ConcStreams ==
  { <<Event(TRUE, TRUE, <<TextPart(<<"A">>), TextPart(<<"B">>)>>, NoEscalate)>>,
    <<Raise("ValueError", <<"Session", "not", "found", ":", "sid">>)>>,
    <<Raise("RuntimeError", <<"Retry", "failed">>)>> }

ConcStart(d) == StartFrom(ConcQueries, ConcStreams, d)
ConcConsumeEvent(d) == ConsumeEventFrom(ConcStreams, d)
ConcStreamRaises(d) == StreamRaisesFrom(ConcStreams, d)

ConcNext ==
  \E d \in Dispatches :
    \/ ConcStart(d)
    \/ ConcConsumeEvent(d)
    \/ ConcStreamRaises(d)
    \/ Finish(d)

ConcSpec == Init /\ [][ConcNext]_vars

\* ---------------------------------------------------------- stock tools
Symbols == {"AAPL", "MSFT"}

\* what ticker.history answers for the window: it raises, or it returns the
\* Close column (empty when there is no row)
HistoryRaises == [raises |-> TRUE, Close |-> <<>>]
History(closes) == [raises |-> FALSE, Close |-> closes]
Histories ==
  { HistoryRaises, History(<<>>), History(<<100>>), History(<<100, 110>>),
    History(<<100, 90>>), History(<<0, 5>>), History(<<300, 400>>) }
Markets == [Symbols -> Histories]

\* days_ago as the caller passes it: an int, or a value of another type
IntDays(n) == [is_int |-> TRUE, value |-> n]
NonIntDays == [is_int |-> FALSE, value |-> 1]
DaysArgs == { IntDays(0 - 1), IntDays(0), IntDays(1), IntDays(2), NonIntDays }

StockLists == SeqsUpTo(Symbols, MaxStocks)

None == [none |-> TRUE, value |-> 0]
Some(v) == [none |-> FALSE, value |-> v]

\* round(n / d) for d > 0, to the nearest integer, halves to even
RoundDiv(n, d) ==
  LET q == n \div d
      r == n - q * d
  IN  IF 2 * r < d THEN q
      ELSE IF 2 * r > d THEN q + 1
      ELSE IF q % 2 = 0 THEN q ELSE q + 1

\* round(((new - old) / old) * 100, 2), in hundredths of a percent
PercentChange(old_price, new_price) ==
  IF old_price > 0
    THEN RoundDiv((new_price - old_price) * 10000, old_price)
    ELSE 0 - RoundDiv((new_price - old_price) * 10000, 0 - old_price)

\* the performance over the window, or None
calculate_performance(history, days_ago) ==
  LET Close == history.Close
      empty == Len(Close) = 0
  IN  IF history.raises THEN None
      ELSE IF (empty \/ Len(Close) < 1)
              /\ ((Len(Close) < 2 /\ days_ago.value > 0) \/ empty)
        THEN None
      ELSE IF Len(Close) = 0 THEN None   \* iloc[0] raises, caught
      ELSE IF Close[1] = 0 THEN Some(0)
      ELSE Some(PercentChange(Close[1], Close[Len(Close)]))

\* not isinstance(days_ago, int) or days_ago <= 0
DaysInvalid_negativeOnly(days_ago) == ~days_ago.is_int \/ days_ago.value < 0
DaysInvalid(days_ago) == ~days_ago.is_int \/ days_ago.value <= 0

EmptyListMessage == <<"Stock list cannot be empty.">>
DaysMessage == <<"Days ago must be a positive integer.">>
\* str(stocks) inside the f-string
ListRepr(stocks) == <<"[">> \o stocks \o <<"]">>
NoBestMessage(stocks, days_ago) ==
  <<"Could not determine the best performing stock from the list:">>
    \o ListRepr(stocks)
    \o <<"over", ToString(days_ago.value), "days.",
         "Ensure symbols are valid and data is available for the period.">>
NoChangeMessage(symbol, days_ago) ==
  <<"Could not calculate price change for", symbol, "over",
    ToString(days_ago.value), "days.",
    "Ensure symbol is valid and data is available for the period.">>

ErrorResult(msg) == [NoResult EXCEPT !.status = "error", !.message = msg]

\* max_performance: -inf, or a performance
NegInf == [inf |-> TRUE, value |-> 0]
NoSymbol == ""
NoBest == [best_stock_symbol |-> NoSymbol, max_performance |-> NegInf]

\* performance > max_performance
IsBetter_orEqual(performance, max_performance) ==
  max_performance.inf \/ performance >= max_performance.value
IsBetter(performance, max_performance) ==
  max_performance.inf \/ performance > max_performance.value

\* the loop of get_best_performing from the i-th symbol on
RECURSIVE BestFrom(_, _, _, _, _)
BestFrom(stocks, i, days_ago, market, acc) ==
  IF i > Len(stocks) THEN acc
  ELSE
    LET symbol == stocks[i]
        performance == calculate_performance(market[symbol], days_ago)
        better == /\ ~performance.none
                  /\ IsBetter(performance.value, acc.max_performance)
    IN  BestFrom(stocks, i + 1, days_ago, market,
          IF better
            THEN [best_stock_symbol |-> symbol,
                  max_performance |-> [inf |-> FALSE, value |-> performance.value]]
            ELSE acc)

\* the result of the tool and the symbols it looked up, in order
get_best_performing(stocks, days_ago, market) ==
  IF stocks = <<>>
    THEN [result |-> ErrorResult(EmptyListMessage), lookups |-> <<>>]
  ELSE IF DaysInvalid(days_ago)
    THEN [result |-> ErrorResult(DaysMessage), lookups |-> <<>>]
  ELSE
    LET acc == BestFrom(stocks, 1, days_ago, market, NoBest)
    IN  [result |->
           IF acc.best_stock_symbol # NoSymbol
             THEN [NoResult EXCEPT !.status = "success",
                                   !.best_stock = acc.best_stock_symbol,
                                   !.performance_percent = acc.max_performance.value,
                                   !.period_days = days_ago]
             ELSE ErrorResult(NoBestMessage(stocks, days_ago)),
         lookups |-> stocks]

get_price_change_percent(symbol, days_ago, market) ==
  IF DaysInvalid(days_ago)
    THEN [result |-> ErrorResult(DaysMessage), lookups |-> <<>>]
  ELSE
    LET performance == calculate_performance(market[symbol], days_ago)
    IN  [result |->
           IF ~performance.none
             THEN [NoResult EXCEPT !.status = "success",
                                   !.symbol = symbol,
                                   !.price_change_percent = performance.value,
                                   !.period_days = days_ago]
             ELSE ErrorResult(NoChangeMessage(symbol, days_ago)),
         lookups |-> <<symbol>>]

\* a tool is called with arguments of the agent's choosing
ToolCalls ==
  { [ToolIdle EXCEPT !.pc = "called", !.fn = "get_best_performing",
                     !.stocks = stocks, !.days_ago = days_ago, !.market = market]
      : stocks \in StockLists, days_ago \in DaysArgs, market \in Markets }
  \cup
  { [ToolIdle EXCEPT !.pc = "called", !.fn = "get_price_change_percent",
                     !.symbol = symbol, !.days_ago = days_ago, !.market = market]
      : symbol \in Symbols, days_ago \in DaysArgs, market \in Markets }

ToolInit ==
  /\ active_sessions = <<>>
  /\ session_service = {}
  /\ dispatch = [d \in Dispatches |-> Idle]
  /\ tool \in ToolCalls

GetBestPerforming ==
  /\ tool.pc = "called"
  /\ tool.fn = "get_best_performing"
  /\ LET r == get_best_performing(tool.stocks, tool.days_ago, tool.market)
     IN  tool' = [tool EXCEPT !.pc = "returned", !.result = r.result,
                              !.lookups = r.lookups]
  /\ UNCHANGED <<active_sessions, session_service, dispatch>>

GetPriceChangePercent ==
  /\ tool.pc = "called"
  /\ tool.fn = "get_price_change_percent"
  /\ LET r == get_price_change_percent(tool.symbol, tool.days_ago, tool.market)
     IN  tool' = [tool EXCEPT !.pc = "returned", !.result = r.result,
                              !.lookups = r.lookups]
  /\ UNCHANGED <<active_sessions, session_service, dispatch>>

ToolNext == GetBestPerforming \/ GetPriceChangePercent

ToolSpec == ToolInit /\ [][ToolNext]_vars

\* ----------------------------------------------------------- arXiv tool
\* A question and an abstract are sequences of characters.
STOP_WORDS ==
  { <<"a">>, <<"a","n">>, <<"t","h","e">>, <<"i","s">>, <<"a","r","e">>,
    <<"w","a","s">>, <<"w","e","r","e">>, <<"b","e">>, <<"b","e","e","n">>,
    <<"b","e","i","n","g">>, <<"h","a","v","e">>, <<"h","a","s">>,
    <<"h","a","d">>, <<"d","o">>, <<"d","o","e","s">>, <<"d","i","d">>,
    <<"w","i","l","l">>, <<"w","o","u","l","d">>, <<"s","h","o","u","l","d">>,
    <<"c","a","n">>, <<"c","o","u","l","d">>, <<"m","a","y">>,
    <<"m","i","g","h","t">>, <<"m","u","s","t">>, <<"a","n","d">>,
    <<"b","u","t">>, <<"o","r">>, <<"n","o","r">>, <<"f","o","r">>,
    <<"s","o">>, <<"y","e","t">>, <<"i","n">>, <<"o","n">>, <<"a","t">>,
    <<"b","y">>, <<"f","r","o","m">>, <<"t","o">>, <<"w","i","t","h">>,
    <<"a","b","o","u","t">>, <<"a","b","o","v","e">>, <<"a","f","t","e","r">>,
    <<"a","g","a","i","n">>, <<"a","g","a","i","n","s","t">>, <<"a","l","l">>,
    <<"a","m">>, <<"a","s">>, <<"b","e","c","a","u","s","e">>,
    <<"b","e","f","o","r","e">>, <<"b","e","l","o","w">>,
    <<"b","e","t","w","e","e","n">>, <<"b","o","t","h">>,
    <<"d","u","r","i","n","g">>, <<"e","a","c","h">>, <<"f","e","w">>,
    <<"f","u","r","t","h","e","r">>, <<"h","e","r","e">>, <<"h","o","w">>,
    <<"i">>, <<"i","f">>, <<"i","n","t","o">>, <<"i","t">>, <<"i","t","s">>,
    <<"i","t","s","e","l","f">>, <<"j","u","s","t">>, <<"m","e">>,
    <<"m","o","r","e">>, <<"m","o","s","t">>, <<"m","y">>,
    <<"m","y","s","e","l","f">>, <<"n","o">>, <<"n","o","t">>,
    <<"n","o","w">>, <<"o","f">>, <<"o","f","f">>, <<"o","n","c","e">>,
    <<"o","n","l","y">>, <<"o","t","h","e","r">>, <<"o","u","r">>,
    <<"o","u","r","s">>, <<"o","u","r","s","e","l","v","e","s">>,
    <<"o","u","t">>, <<"o","v","e","r">>, <<"o","w","n">>,
    <<"s","a","m","e">>, <<"s","h","e">>, <<"h","e">>, <<"t","h","e","y">>,
    <<"t","h","e","m">>, <<"t","h","e","i","r">>, <<"t","h","e","i","r","s">>,
    <<"t","h","e","m","s","e","l","v","e","s">>, <<"t","h","e","n">>,
    <<"t","h","e","r","e">>, <<"t","h","e","s","e">>, <<"t","h","i","s">>,
    <<"t","h","o","s","e">>, <<"t","h","r","o","u","g","h">>, <<"t","o","o">>,
    <<"u","n","d","e","r">>, <<"u","n","t","i","l">>, <<"u","p">>,
    <<"v","e","r","y">>, <<"w","e">>, <<"w","h","a","t">>,
    <<"w","h","e","n">>, <<"w","h","e","r","e">>, <<"w","h","i","c","h">>,
    <<"w","h","i","l","e">>, <<"w","h","o">>, <<"w","h","o","m">>,
    <<"w","h","y">>, <<"y","o","u">>, <<"y","o","u","r">>,
    <<"y","o","u","r","s">>, <<"y","o","u","r","s","e","l","f">>,
    <<"y","o","u","r","s","e","l","v","e","s">> }

\* the characters of a question; " " and "?" are not word characters (\\W)
QuestionChars == {"a", "I", "T", " ", "?"}
NonWordChars == {" ", "?"}
Questions == SeqsUpTo(QuestionChars, MaxQuestionLen)

\* what arxiv_id_or_url leads to: no id in it, no such paper, the search
\* raises, or the paper with its summary
InvalidId == [NoPaperLookup EXCEPT !.outcome = "invalid_id"]
PaperNotFound == [NoPaperLookup EXCEPT !.outcome = "not_found"]
SearchRaises == [NoPaperLookup EXCEPT !.outcome = "raises"]
Paper(summary) == [outcome |-> "found", summary |-> summary, title |-> "title"]
Abstracts ==
  { <<>>, <<"T", "a">>, <<"a", " ", "i", "t">>, <<"t", "i", "?", "I">> }
PaperLookups ==
  {InvalidId, PaperNotFound, SearchRaises} \cup {Paper(a) : a \in Abstracts}

\* re.split(r'\W+', s) without its empty strings: the maximal runs of word
\* characters of s from position i on, cur being the run in progress
RECURSIVE SplitFrom(_, _, _)
SplitFrom(s, i, cur) ==
  LET done == IF cur = <<>> THEN <<>> ELSE <<cur>>
  IN  IF i > Len(s) THEN done
      ELSE IF s[i] \in NonWordChars THEN done \o SplitFrom(s, i + 1, <<>>)
      ELSE SplitFrom(s, i + 1, Append(cur, s[i]))

IsSignificant(word) == word \notin STOP_WORDS

\* [word for word in re.split(r'\W+', question.lower())
\*  if word and word not in STOP_WORDS]
question_words(question) == SelectSeq(SplitFrom(Lower(question), 1, <<>>), IsSignificant)

\* the loop counting the words that are substrings of abstract.lower()
found_keywords(words, abstract) ==
  Cardinality({ i \in 1..Len(words) : Contains(Lower(abstract), words[i]) })

\* found_keywords > len(question_words) / 2
IsMatch_atLeastHalf(found, total) == 2 * found >= total
IsMatch(found, total) == 2 * found > total

PaperResult(paper, answer_type) ==
  [NoResult EXCEPT !.status = "success", !.answer_type = answer_type,
                   !.abstract = paper.summary, !.title = paper.title]

answer_paper_question(paper, question) ==
  IF paper.outcome = "invalid_id"
    THEN ErrorResult(<<"Invalid arXiv ID or URL format.">>)
  ELSE IF paper.outcome = "raises"
    THEN ErrorResult(<<"An error occurred:", "search failed">>)
  ELSE IF paper.outcome = "not_found"
    THEN ErrorResult(<<"Paper with ID", "id", "not found.">>)
  ELSE
    LET words == question_words(question)
    IN  IF words = <<>> THEN PaperResult(paper, "not_enough_keywords")
        ELSE IF IsMatch(found_keywords(words, paper.summary), Len(words))
          THEN PaperResult(paper, "found_in_abstract")
        ELSE PaperResult(paper, "not_found_in_abstract")

PaperCalls ==
  { [ToolIdle EXCEPT !.pc = "called", !.fn = "answer_paper_question",
                     !.paper = paper, !.question = question]
      : paper \in PaperLookups, question \in Questions }

PaperInit ==
  /\ active_sessions = <<>>
  /\ session_service = {}
  /\ dispatch = [d \in Dispatches |-> Idle]
  /\ tool \in PaperCalls

AnswerPaperQuestion ==
  /\ tool.pc = "called"
  /\ tool.fn = "answer_paper_question"
  /\ tool' = [tool EXCEPT !.pc = "returned",
                          !.result = answer_paper_question(tool.paper, tool.question)]
  /\ UNCHANGED <<active_sessions, session_service, dispatch>>

PaperSpec == PaperInit /\ [][AnswerPaperQuestion]_vars

\* ================================================================= claims
\* the first attempt of c ended with an exception raised by run_async
FirstRunRaised(c) == c.first.kind = "error"

\* the message of the first attempt's exception contains the marker
FirstHasMarker(c) == Contains(c.first.msg, SessionNotFoundMarker)

\* the call is over: it returned or an exception left it
Over(c) == c.pc \in {"done", "raised"}

\* text is one of the error texts of the handlers and contains msg
IsErrorTextWith(text, msg) ==
  /\ Len(text) > 0
  /\ text[1] = "Sorry,"
  /\ Contains(text, msg)

\* index of the first final event of a stream, 0 if it has none
FirstFinalIndex(s) ==
  IF \E i \in 1..Len(s) : s[i].kind = "event" /\ s[i].final
  THEN CHOOSE i \in 1..Len(s) :
         /\ s[i].kind = "event" /\ s[i].final
         /\ \A j \in 1..(i - 1) : ~(s[j].kind = "event" /\ s[j].final)
  ELSE 0

\* C1: in every dispatch run_async is started at most two times, whatever
\* the backend produces.
C1_AtMostTwoExecutions ==
  \A d \in Dispatches : dispatch[d].execs <= 2

\* a dispatch that returned after two executions
C1_Witness ==
  \E d \in Dispatches : dispatch[d].pc = "done" /\ dispatch[d].execs = 2

\* C2: a second execution happens only after a first execution that raised
\* an error whose message contains "Session not found"; after a first
\* execution that handled a final event, ended without one, or raised any
\* other error, the dispatch ends with exactly one execution.
C2_SecondExecutionOnlyAfterSessionNotFound ==
  \A d \in Dispatches :
    LET c == dispatch[d] IN
    /\ c.execs >= 2 => FirstRunRaised(c) /\ FirstHasMarker(c)
    /\ (Over(c) /\ c.first.kind \in {"final", "ended", "extract_error"})
         => c.execs = 1
    /\ (Over(c) /\ FirstRunRaised(c) /\ ~FirstHasMarker(c)) => c.execs = 1

\* a dispatch that executed the agent a second time, after a first
\* execution that raised an error with the marker, and returned the text
\* of the second execution's final event
C2_Witness ==
  \E d \in Dispatches :
    LET c == dispatch[d] IN
    /\ c.pc = "done" /\ c.execs = 2 /\ c.last.kind = "final"
    /\ FirstRunRaised(c) /\ FirstHasMarker(c)

\* C3 (as claimed): whenever the first execution raises an error whose
\* message contains "Session not found", of whatever type, the dispatch
\* drops the registry entry, resolves a session again and executes the
\* agent exactly once more.
C3_RetryOnMarkerOfAnyType ==
  \A d \in Dispatches :
    LET c == dispatch[d] IN
    (Over(c) /\ FirstRunRaised(c) /\ FirstHasMarker(c))
      => (c.invalidations = 1 /\ c.resolves = 2 /\ c.execs = 2)

\* C4 (as claimed): the session id handed to the second execution differs
\* from the one handed to the first.
C4_RetryUsesFreshSession ==
  \A d \in Dispatches :
    LET c == dispatch[d] IN
    Len(c.sids) = 2 => c.sids[1] # c.sids[2]

\* C5 (as claimed): no exception leaves call_agent_async.
C5_NoExceptionEscapes ==
  \A d \in Dispatches : dispatch[d].pc # "raised"

\* C6: if the first execution raises an error that is not a ValueError
\* with the marker, the dispatch returns after exactly one execution and
\* one session resolution, and the returned text is an error text that
\* contains the error's message.
C6_NoRetryOnOtherError ==
  \A d \in Dispatches :
    LET c == dispatch[d] IN
    (Over(c) /\ FirstRunRaised(c)
       /\ ~(c.first.type = "ValueError" /\ FirstHasMarker(c)))
      => /\ c.pc = "done"
         /\ c.execs = 1
         /\ c.resolves = 1
         /\ c.invalidations = 0
         /\ IsErrorTextWith(c.final_response_text, c.first.msg)

\* a dispatch that returned after a first execution that raised a
\* ValueError without the marker
C6_Witness ==
  \E d \in Dispatches :
    LET c == dispatch[d] IN
    /\ c.pc = "done" /\ FirstRunRaised(c)
    /\ c.first.type = "ValueError" /\ ~FirstHasMarker(c)
    /\ c.final_response_text = ValueErrorPrefix \o c.first.msg

\* C7: if the first execution fails session-invalid and the second one
\* raises too, the dispatch returns after exactly two executions and two
\* session resolutions, with one registry deletion, and the returned text
\* is an error text that contains the message of the second failure.
C7_RetryFailureIsFinal ==
  \A d \in Dispatches :
    LET c == dispatch[d] IN
    (Over(c) /\ c.execs >= 2 /\ c.last.kind = "error")
      => /\ c.pc = "done"
         /\ c.execs = 2
         /\ c.resolves = 2
         /\ c.invalidations = 1
         /\ IsErrorTextWith(c.final_response_text, c.last.msg)

\* a dispatch whose two executions both raised a ValueError with the marker
C7_Witness ==
  \E d \in Dispatches :
    LET c == dispatch[d] IN
    /\ c.pc = "done" /\ c.execs = 2
    /\ c.last.kind = "error" /\ c.last.type = "ValueError"
    /\ Contains(c.last.msg, SessionNotFoundMarker)

\* C8: within one execution no event is requested after the first final
\* event, and the text returned after a final event is determined by that
\* event alone: neither the non-final events before it nor the events
\* after it contribute.
C8_StopsAtFirstFinalEvent ==
  \A d \in Dispatches :
    LET c == dispatch[d] IN
    /\ \A i \in 1..c.pos :
         (c.stream[i].kind = "event" /\ is_final_response(c.stream[i]))
           => (i = c.pos /\ c.pc # "running")
    /\ (c.pc = "done" /\ c.last.kind = "final")
         => /\ c.pos = FirstFinalIndex(c.stream)
            /\ c.final_response_text =
                 ExtractFinal(c.stream[c.pos], DefaultResponseText).text

\* a dispatch that returned the text of a final event that had a
\* non-final event before it and another final event after it
C8_Witness ==
  \E d \in Dispatches :
    LET c == dispatch[d] IN
    /\ c.pc = "done" /\ c.last.kind = "final"
    /\ c.pos = 2 /\ Len(c.stream) = 3
    /\ c.stream[3].kind = "event" /\ c.stream[3].final
    /\ c.stream[3] # c.stream[2]
    /\ c.final_response_text = <<"A", "B">>

\* the text of the parts that carry a str text, in order
RECURSIVE TextOfStrParts(_)
TextOfStrParts(parts) ==
  IF parts = <<>> THEN <<>>
  ELSE (IF Head(parts).has_text /\ Head(parts).is_str
        THEN Head(parts).text ELSE <<>>) \o TextOfStrParts(Tail(parts))

\* the last event the dispatch asked for is a final event
EndedOnFinalEvent(c) ==
  /\ c.pc = "done"
  /\ c.last.kind \in {"final", "extract_error"}
  /\ c.pos >= 1
  /\ c.stream[c.pos].kind = "event"
  /\ c.stream[c.pos].final

\* C9 (as claimed): if the first final event has content with at least one
\* part, the returned text is the concatenation of the texts of its
\* textual parts, parts without a text or with a text of None being
\* skipped.
C9_ConcatenatesTextualParts ==
  \A d \in Dispatches :
    LET c == dispatch[d] IN
    (EndedOnFinalEvent(c) /\ c.stream[c.pos].has_content
       /\ c.stream[c.pos].parts # <<>>)
      => c.final_response_text = TextOfStrParts(c.stream[c.pos].parts)

\* the text the tests expect for an escalation
ExpectedEscalationPrefix == <<"Agent", "escalated:">>

\* C10 (as claimed): if the final event of the first attempt has no
\* textual content but an escalation with message M, the dispatch returns
\* "Agent escalated: " followed by M after exactly one execution.
C10_EscalationText ==
  \A d \in Dispatches :
    LET c == dispatch[d] IN
    (EndedOnFinalEvent(c) /\ c.attempt = 0
       /\ ~(c.stream[c.pos].has_content /\ c.stream[c.pos].parts # <<>>)
       /\ c.stream[c.pos].escalate.kind = "obj"
       /\ c.stream[c.pos].escalate.msg_is_str)
      => /\ c.execs = 1
         /\ c.final_response_text =
              ExpectedEscalationPrefix \o c.stream[c.pos].escalate.message

\* C11: if the stream of an execution ends without a final event and
\* without raising, the dispatch returns "Agent did not produce a final
\* response." and starts no further execution.
C11_FallbackWithoutFinalEvent ==
  \A d \in Dispatches :
    LET c == dispatch[d] IN
    c.last.kind = "ended"
      => /\ c.pc = "done"
         /\ c.execs = c.attempt + 1
         /\ c.final_response_text =
              <<"Agent", "did", "not", "produce", "a", "final", "response.">>

\* a dispatch that returned after a first execution whose stream held
\* only non-final events
C11_Witness ==
  \E d \in Dispatches :
    LET c == dispatch[d] IN
    /\ c.pc = "done" /\ c.last.kind = "ended" /\ c.attempt = 0
    /\ c.pos = Len(c.stream) /\ c.pos >= 2

\* user u has a registry entry
HasEntry(active, u) == u \in DOMAIN active

\* dispatch d called get_or_create_session in this step without deleting
\* the registry entry first (the call of main.py:214)
ResolvedWithoutInvalidation(d) ==
  /\ dispatch'[d].resolves = dispatch[d].resolves + 1
  /\ dispatch'[d].invalidations = dispatch[d].invalidations

\* C12: a call of get_or_create_session for a user without a registry
\* entry creates exactly one backend session and stores one entry for that
\* user; a call for a user with an entry returns the stored session id,
\* creates no backend session and leaves registry and backend as they
\* are, whatever calls for other users happened before.
C12_Step ==
  \A d \in Dispatches :
    ResolvedWithoutInvalidation(d) =>
      LET u == dispatch'[d].user_id
          c == dispatch'[d]
      IN  IF HasEntry(active_sessions, u)
          THEN /\ c.session_id = active_sessions[u]
               /\ c.creates = 0
               /\ active_sessions' = active_sessions
               /\ session_service' = session_service
          ELSE c.pc # "raised"
                 => /\ c.creates = 1
                    /\ DOMAIN active_sessions' = DOMAIN active_sessions \cup {u}
                    /\ active_sessions'[u] = c.session_id
                    /\ \A v \in DOMAIN active_sessions :
                         active_sessions'[v] = active_sessions[v]
                    /\ session_service' = session_service \cup {<<u, c.session_id>>}

C12_CreateOncePerUser == [][C12_Step]_vars

\* a dispatch that runs with the stored session of its user and created
\* none, while the other user has an entry too
C12_Witness ==
  \E d \in Dispatches :
    LET c == dispatch[d] IN
    /\ c.pc = "running" /\ c.attempt = 0 /\ c.creates = 0
    /\ c.session_id = active_sessions[c.user_id]
    /\ DOMAIN active_sessions = Users

\* the user on whose behalf dispatch d acts in this step
ActingUser(d) ==
  IF dispatch[d].pc = "idle" THEN dispatch'[d].user_id ELSE dispatch[d].user_id

\* the registry entry of user v is the same before and after the step
EntryUnchanged(v) ==
  /\ HasEntry(active_sessions, v) <=> HasEntry(active_sessions', v)
  /\ HasEntry(active_sessions, v) => active_sessions'[v] = active_sessions[v]

\* a step of a dispatch leaves the entries of all other users alone
C13_Step ==
  \A d \in Dispatches :
    dispatch'[d] # dispatch[d] =>
      \A v \in Users \ {ActingUser(d)} : EntryUnchanged(v)

\* every session id a dispatch handed to run_async is a session of its
\* own user: not the registry entry of another user, and not a session
\* created in the backend for another user
C13_OwnSessionsOnly ==
  \A d \in Dispatches :
    LET c == dispatch[d] IN
    \A i \in 1..Len(c.sids) :
      /\ \A v \in Users \ {c.user_id} :
           HasEntry(active_sessions, v) => active_sessions[v] # c.sids[i]
      /\ \A p \in session_service : p[2] = c.sids[i] => p[1] = c.user_id

\* C13: under any interleaving of concurrent dispatches, a dispatch for
\* one user never changes or removes the registry entry of another user
\* and never hands another user's session id to the agent, also on the
\* invalidate-and-recreate path.
C13_NoCrossUserInterference ==
  []C13_OwnSessionsOnly /\ [][C13_Step]_vars

\* two dispatches of different users in flight at once, one of them in
\* its second execution after deleting and re-creating its entry
C13_Witness ==
  \E d, e \in Dispatches :
    /\ dispatch[d].pc = "running" /\ dispatch[e].pc = "running"
    /\ dispatch[d].user_id # dispatch[e].user_id
    /\ dispatch[d].invalidations = 1 /\ dispatch[d].attempt = 1
    /\ DOMAIN active_sessions = Users

\* dispatches d and e are distinct calls for the same user, both begun and
\* not yet handed back
ConcurrentSameUser(d, e) ==
  /\ d # e
  /\ dispatch[d].pc # "idle" /\ dispatch[e].pc # "idle"
  /\ dispatch[d].user_id = dispatch[e].user_id

\* C14 (as claimed): when dispatches for the same user interleave, also
\* on the retry path, the session of a running dispatch stays in the
\* backend and every dispatch completes with a text: none ends with an
\* exception.  (That the registry holds at most one session id per user
\* is given by active_sessions being a mapping.)
C14_SameUserOnlyDuplicateMint ==
  \A d, e \in Dispatches :
    ConcurrentSameUser(d, e) =>
      /\ dispatch[d].pc # "raised"
      /\ dispatch[d].pc = "running"
           => <<dispatch[d].user_id, dispatch[d].session_id>> \in session_service

\* C15: the stock capability is selected exactly when the lower-cased
\* utterance contains a stock keyword, the default capability otherwise;
\* the choice depends on the utterance only, so it is the same in every
\* reachable state (any user, registry state and history), and every
\* execution of the dispatch uses it.
C15_RoutingByKeyword ==
  \A d \in Dispatches :
    LET c == dispatch[d] IN
    c.pc # "idle" =>
      /\ c.chosen_agent_runner = "stock_runner"
           <=> \E k \in 1..Len(stock_keywords) :
                 Contains(Lower(c.query), stock_keywords[k])
      /\ c.chosen_agent_runner \in {"stock_runner", "runner"}
      /\ c.query = <<"S","T","O","C","K","s">> => c.chosen_agent_runner = "stock_runner"
      /\ c.query = <<"https://arxiv.org/abs/", "2303.10130">>
           => c.chosen_agent_runner = "runner"
      /\ \A i \in 1..Len(c.runners) : c.runners[i] = c.chosen_agent_runner

\* a later dispatch of a user who has a registry entry is routed to the
\* stock capability for an utterance that holds a keyword in upper case
C15_Witness ==
  \E d \in Dispatches :
    LET c == dispatch[d] IN
    /\ c.pc = "running" /\ c.creates = 0
    /\ c.query = <<"S","T","O","C","K","s">>
    /\ c.runners = <<"stock_runner">>
    /\ DOMAIN active_sessions = Users

\* the utterance is a link to the paper with a numeric identifier
IsPaperLink(q) == Len(q) = 2 /\ q[1] = "https://arxiv.org/abs/"

\* the canonical reference to the paper of a link
CanonicalReference(q) == <<"arXiv:", q[2]>>

\* C16 (as claimed): an utterance that is a paper link is handed to the
\* agent as "arXiv:<id>"; any other utterance is handed over unaltered.
C16_PaperLinkRewritten ==
  \A d \in Dispatches :
    LET c == dispatch[d] IN
    c.pc # "idle" =>
      /\ c.content = (IF IsPaperLink(c.query) THEN CanonicalReference(c.query)
                      ELSE c.query)
      /\ \A i \in 1..Len(c.messages) : c.messages[i] = c.content

\* the texts test_main.py expects
ExpectedRetryErrorPrefix ==
  <<"Sorry,", "I", "encountered", "an", "error", "after", "a", "session", "issue:">>
ExpectedValueErrorPrefix == <<"Sorry,", "I", "encountered", "an", "error:">>
ExpectedUnexpectedErrorPrefix == <<"Sorry,", "an", "unexpected", "error", "occurred:">>

\* C17 (as claimed): when the first attempt fails session-invalid and the
\* retry raises an error with message M, the dispatch returns "Sorry, I
\* encountered an error after a session issue: " followed by M.
C17_RetryErrorText ==
  \A d \in Dispatches :
    LET c == dispatch[d] IN
    (c.pc = "done" /\ c.execs = 2 /\ c.last.kind = "error")
      => c.final_response_text = ExpectedRetryErrorPrefix \o c.last.msg

\* C18 (as claimed): when the first attempt raises a ValueError without
\* the marker, with message M, the dispatch returns "Sorry, I encountered
\* an error: " followed by M; for any other exception it returns "Sorry,
\* an unexpected error occurred: " followed by M.
C18_FirstErrorText ==
  \A d \in Dispatches :
    LET c == dispatch[d] IN
    (c.pc = "done" /\ c.attempt = 0 /\ c.last.kind = "error")
      => c.final_response_text =
           (IF c.last.type = "ValueError"
            THEN ExpectedValueErrorPrefix
            ELSE ExpectedUnexpectedErrorPrefix) \o c.last.msg

\* the tool call has returned
Returned(fn) == tool.pc = "returned" /\ tool.fn = fn

\* the day count is a positive integer
PositiveIntDays(days_ago) == days_ago.is_int /\ days_ago.value >= 1

\* the history lookup of a symbol fails: it raises or it has no row
LookupFails(history) == history.raises \/ history.Close = <<>>

AllLookupsFail ==
  \A i \in 1..Len(tool.stocks) : LookupFails(tool.market[tool.stocks[i]])

\* C19: get_best_performing returns a tagged error in three cases: an empty
\* symbol list and a day count that is not a positive integer are
\* validation errors, answered without any symbol lookup; a non-empty list
\* whose every lookup fails gives an error whose message names the full
\* input list.  (The tool always returns a result: no case raises.)
C19_BestPerformingErrors ==
  Returned("get_best_performing") =>
    /\ tool.stocks = <<>> =>
         tool.result.status = "error" /\ tool.lookups = <<>>
    /\ (tool.stocks # <<>> /\ ~PositiveIntDays(tool.days_ago)) =>
         tool.result.status = "error" /\ tool.lookups = <<>>
    /\ (tool.stocks # <<>> /\ PositiveIntDays(tool.days_ago) /\ AllLookupsFail) =>
         /\ tool.result.status = "error"
         /\ Contains(tool.result.message, tool.stocks)
         /\ tool.lookups = tool.stocks

\* every lookup of a two-symbol list failed and the tool answered
C19_Witness ==
  /\ Returned("get_best_performing")
  /\ Len(tool.stocks) = 2
  /\ PositiveIntDays(tool.days_ago)
  /\ AllLookupsFail
  /\ \E i \in 1..2 : tool.market[tool.stocks[i]].raises
  /\ tool.result.status = "error"
  /\ Contains(tool.result.message, tool.stocks)

\* C20: get_price_change_percent, for a positive day count and a symbol
\* whose history in the window holds exactly one close, returns a tagged
\* error (two closes are needed), not a success result.
C20_OneCloseIsError ==
  ( /\ Returned("get_price_change_percent")
    /\ PositiveIntDays(tool.days_ago)
    /\ ~tool.market[tool.symbol].raises
    /\ Len(tool.market[tool.symbol].Close) = 1 )
  => tool.result.status = "error"

\* the significant keywords of the question asked: its words, lower-cased,
\* that are not stop words, one per occurrence
Keywords == question_words(tool.question)

\* the keywords that occur in the lower-cased abstract of the paper
KeywordHits ==
  Cardinality({ i \in 1..Len(Keywords) :
                  Contains(Lower(tool.paper.summary), Keywords[i]) })

\* every word of the question is a stop word
OnlyStopWords ==
  LET words == SplitFrom(Lower(tool.question), 1, <<>>)
  IN  \A i \in 1..Len(words) : words[i] \in STOP_WORDS

AnsweredForExistingPaper ==
  Returned("answer_paper_question") /\ tool.paper.outcome = "found"

\* C21: for an existing paper, a question made only of stop words (and
\* separators) is answered "not_enough_keywords"; a question with at least
\* one significant keyword is answered "found_in_abstract" exactly when
\* strictly more than half of its keywords occur in the lower-cased
\* abstract, and "not_found_in_abstract" otherwise.
C21_AnswerTypeByKeywords ==
  AnsweredForExistingPaper =>
    /\ tool.result.status = "success"
    /\ OnlyStopWords => tool.result.answer_type = "not_enough_keywords"
    /\ ~OnlyStopWords =>
         /\ Len(Keywords) >= 1
         /\ tool.result.answer_type =
              (IF 2 * KeywordHits > Len(Keywords)
                 THEN "found_in_abstract" ELSE "not_found_in_abstract")

\* exactly half of the keywords occur in the abstract: not a match
C21_Witness ==
  /\ AnsweredForExistingPaper
  /\ Len(Keywords) = 2
  /\ KeywordHits = 1
  /\ tool.result.answer_type = "not_found_in_abstract"

\* C22 (as claimed): every dispatch that has begun eventually returns a
\* result, and it enters the retry at most once (at most one
\* invalidation, at most two executions).
C22_DispatchReturns ==
  /\ [](\A d \in Dispatches :
         dispatch[d].invalidations <= 1 /\ dispatch[d].execs <= 2)
  /\ \A d \in Dispatches :
       (dispatch[d].pc \in {"running", "raised"}) ~> (dispatch[d].pc = "done")

\* a step leaves the registry alone unless it is the invalidation of a
\* running dispatch, which happens at most once per dispatch and only when
\* the first attempt failed with a session-not-found error
C23_Step ==
  \A d \in Dispatches :
    LET c == dispatch[d]
        n == dispatch'[d]
    IN  /\ n.invalidations <= 1
        /\ c.pc # "running" => n.invalidations \in {0, c.invalidations}
        /\ (c.pc = "running" /\ n.invalidations # c.invalidations) =>
             /\ c.attempt = 0
             /\ n.first.kind = "error"
             /\ Contains(n.first.msg, SessionNotFoundMarker)
        /\ (c.pc = "running" /\ n.invalidations = c.invalidations) =>
             active_sessions' = active_sessions

\* C23: a dispatch removes the user's registry entry only in response to a
\* session-not-found failure of its first attempt, and at most once; every
\* other step of a run (an event, the end of the stream, another error, a
\* failure of the retry) leaves the registry as it was.
C23_InvalidateOnlyOnSessionNotFound == [][C23_Step]_vars

\* the retry failed after one invalidation and the re-created entry is
\* still in the registry
C23_Witness ==
  \E d \in Dispatches :
    LET c == dispatch[d] IN
    /\ c.pc = "done"
    /\ c.execs = 2
    /\ c.invalidations = 1
    /\ c.last.kind = "error"
    /\ c.user_id \in DOMAIN active_sessions
    /\ active_sessions[c.user_id] = c.session_id

\* C24: the capability is chosen once, before the first attempt: the retry
\* calls the same runner with the same user id and the same utterance
\* content as the first attempt; only the session id handed over may
\* differ between the two executions.
C24_RetryRepeatsTheCall ==
  \A d \in Dispatches :
    LET c == dispatch[d] IN
    c.execs = 2 =>
      /\ Len(c.runners) = 2 /\ c.runners[2] = c.runners[1]
      /\ Len(c.user_ids) = 2 /\ c.user_ids[2] = c.user_ids[1]
      /\ Len(c.messages) = 2 /\ c.messages[2] = c.messages[1]
      /\ Len(c.sids) = 2

\* a retry of a stock query ran on the stock runner both times
C24_Witness ==
  \E d \in Dispatches :
    LET c == dispatch[d] IN
    /\ c.execs = 2
    /\ c.runners = <<"stock_runner", "stock_runner">>
    /\ c.user_ids = <<c.user_id, c.user_id>>
    /\ c.messages = <<c.query, c.query>>
    /\ FirstRunRaised(c) /\ FirstHasMarker(c)

\* the change from the first to the last close of the window, in
\* hundredths of a percent (0 when the baseline is zero)
ChangeOver(history) ==
  LET old == history.Close[1]
      new == history.Close[Len(history.Close)]
  IN  IF old = 0 THEN 0 ELSE PercentChange(old, new)

\* the positions of the list whose lookup succeeded
Succeeded == { i \in 1..Len(tool.stocks) : ~LookupFails(tool.market[tool.stocks[i]]) }

PerformanceAt(i) == ChangeOver(tool.market[tool.stocks[i]])

\* the first position that holds the maximum among the succeeded ones
IsFirstBest(i) ==
  /\ i \in Succeeded
  /\ \A j \in Succeeded : PerformanceAt(j) <= PerformanceAt(i)
  /\ \A j \in Succeeded : j < i => PerformanceAt(j) < PerformanceAt(i)

\* C25: for a non-empty list and a positive day count, get_best_performing
\* returns the symbol with the maximum performance among the symbols whose
\* lookup succeeded, skipping the failed ones; among several with the
\* maximum it returns the first of the list, with that symbol's own
\* performance.
C25_BestIsFirstMaximum ==
  ( /\ Returned("get_best_performing")
    /\ tool.stocks # <<>>
    /\ PositiveIntDays(tool.days_ago)
    /\ Succeeded # {} )
  => /\ tool.result.status = "success"
     /\ \E i \in Succeeded :
          /\ IsFirstBest(i)
          /\ tool.result.best_stock = tool.stocks[i]
          /\ tool.result.performance_percent = PerformanceAt(i)
     /\ tool.result.period_days = tool.days_ago

\* two different symbols share the maximum and the first one is returned
C25_Witness ==
  /\ Returned("get_best_performing")
  /\ PositiveIntDays(tool.days_ago)
  /\ Len(tool.stocks) = 2
  /\ tool.stocks[1] # tool.stocks[2]
  /\ Succeeded = {1, 2}
  /\ PerformanceAt(1) = PerformanceAt(2)
  /\ PerformanceAt(1) # 0
  /\ tool.result.status = "success"
  /\ tool.result.best_stock = tool.stocks[1]

====
